---- MODULE Spec2Model ----
(***************************************************************************)
(* Model of the realtime-transcription-editor front end:                   *)
(*   src/frontend/src/App.jsx                    (App component)           *)
(*   src/frontend/src/components/FinalEditor.jsx (Slate editor wrapper)    *)
(*                                                                         *)
(* JavaScript strings are sequences of one-character strings, so that      *)
(* slice / trim / startsWith / the punctuation regexp are computed the way *)
(* the code computes them.  A Slate value is a sequence of paragraph       *)
(* nodes, each with a sequence of leaves [text, bold].                     *)
(*                                                                         *)
(* One action is one event handler together with the React render and the  *)
(* effects it triggers (App.jsx:185-187, App.jsx:217-249,                  *)
(* FinalEditor.jsx:160-232), run until no state changes.                   *)
(***************************************************************************)
EXTENDS Integers, Sequences, FiniteSets, TLC

\* ------------------------------------------------------------------------
\* Bounds of the model
\* ------------------------------------------------------------------------
\* recordings started in one behaviour
MaxSessions == 1
\* the user types only while the document is shorter than this, and clicks
\* Append only while it is no longer than this
MaxDocLen == 1
\* the user presses Enter only while the document has fewer paragraphs than this
MaxParagraphs == 2
\* in the auto-append variant patches arrive only while the text App holds
\* for the editor is no longer than this
MaxAppendLen == 3

\* the calls of startRecording of one session, the chunks whose bytes are
\* being read at one time, and the messages sent to the server
MaxCalls == 2
MaxBuffers == 1
MaxSent == 6

\* ------------------------------------------------------------------------
\* JavaScript string primitives
\* ------------------------------------------------------------------------
Whitespace == {" ", "\n"}
Punctuation == {".", ",", "!", "?", ";", ":"}

\* String.prototype.slice(n) for 0 <= n
Slice(s, n) == IF n >= Len(s) THEN <<>> ELSE SubSeq(s, n + 1, Len(s))

StartsWith(s, p) == Len(p) <= Len(s) /\ SubSeq(s, 1, Len(p)) = p

EndsWithSpace(s) == Len(s) > 0 /\ s[Len(s)] = " "

RECURSIVE TrimStart(_)
TrimStart(s) == IF s # <<>> /\ s[1] \in Whitespace THEN TrimStart(Tail(s)) ELSE s

RECURSIVE TrimEnd(_)
TrimEnd(s) ==
  IF s # <<>> /\ s[Len(s)] \in Whitespace THEN TrimEnd(SubSeq(s, 1, Len(s) - 1)) ELSE s

\* String.prototype.trim()
Trim(s) == TrimEnd(TrimStart(s))

\* Array.prototype.join(sep) on an array of strings
RECURSIVE Join(_, _)
Join(strs, sep) ==
  IF strs = <<>> THEN <<>>
  ELSE IF Len(strs) = 1 THEN strs[1]
  ELSE strs[1] \o sep \o Join(Tail(strs), sep)

\* index of the first non-whitespace character at or after i (Len(s)+1 if none)
RECURSIVE SkipWhitespace(_, _)
SkipWhitespace(s, i) ==
  IF i <= Len(s) /\ s[i] \in Whitespace THEN SkipWhitespace(s, i + 1) ELSE i

\* text.replace(/\s+([.,!?;:])/g, "$1") scanning from index i
RECURSIVE ReplaceFrom(_, _)
ReplaceFrom(s, i) ==
  IF i > Len(s) THEN <<>>
  ELSE IF s[i] \in Whitespace
       THEN LET j == SkipWhitespace(s, i)
            IN IF j <= Len(s) /\ s[j] \in Punctuation
               THEN <<s[j]>> \o ReplaceFrom(s, j + 1)
               ELSE SubSeq(s, i, j - 1) \o ReplaceFrom(s, j)
       ELSE <<s[i]>> \o ReplaceFrom(s, i + 1)

CleanUpPunctuation(s) == ReplaceFrom(s, 1)

\* ------------------------------------------------------------------------
\* Slate values
\* ------------------------------------------------------------------------
textToSlateValue(text) == << [children |-> << [text |-> text, bold |-> FALSE] >>] >>

\* a child of a paragraph that is a text node; a stored document can also
\* hold an element there
IsText(node) == "text" \in DOMAIN node

\* child.text || ""
RECURSIVE LeafTexts(_)
LeafTexts(leaves) ==
  IF leaves = <<>> THEN <<>>
  ELSE (IF IsText(leaves[1]) THEN leaves[1].text ELSE <<>>) \o LeafTexts(Tail(leaves))

RECURSIVE NodeTexts(_)
NodeTexts(value) ==
  IF value = <<>> THEN <<>>
  ELSE <<LeafTexts(value[1].children)>> \o NodeTexts(Tail(value))

slateToPlainText(value) == Join(NodeTexts(value), <<"\n">>)

getPlainText(slateValue) == Join(NodeTexts(slateValue), <<"\n">>)

\* ------------------------------------------------------------------------
\* Inputs: words, segment ids, event payloads
\* ------------------------------------------------------------------------
\* activeWid null (wids are positive)
NoWord == 0
\* a timestamp that is null or missing
NoTime == -1

\* words the transcription backend can send: {wid, text, t0, t1}
WordA == [wid |-> 1, text |-> <<"a">>, t0 |-> 0, t1 |-> 1]
WordComma == [wid |-> 2, text |-> <<",">>, t0 |-> 1, t1 |-> 2]

WordB == [wid |-> 3, text |-> <<"b">>, t0 |-> 1, t1 |-> 3]
WordPeriod == [wid |-> 4, text |-> <<".">>, t0 |-> 3, t1 |-> 4]
WordC == [wid |-> 5, text |-> <<"c">>, t0 |-> 4, t1 |-> 5]

\* a segment id "seg_<n>" as the array id.split("_")
SegmentIds == { <<"seg", "0">>, <<"seg", "1">> }

\* the word lists a patch for a segment can carry
WordLists(segmentId) ==
  IF segmentId = <<"seg", "0">> THEN { <<WordA>> } ELSE { <<WordComma>> }

\* a word that came without timestamps
WordNoTime == [wid |-> 6, text |-> <<"d">>, t0 |-> NoTime, t1 |-> NoTime]

\* the word lists of the patches that arrive around a playback
PlaybackWordLists(segmentId) ==
  IF segmentId = <<"seg", "0">>
  THEN { <<WordA>>, <<WordA, WordB>> }
  ELSE { <<WordNoTime, WordComma>> }

\* audio.currentTime at a frame or a seek, in the unit of t0 / t1
Times == 0..2

\* segment ids and word lists of a longer recording: growing interim lists,
\* empty lists, lists that start with punctuation
PatchSegmentIds == { <<"seg", "0">>, <<"seg", "1">> }
ForwardSegmentIds == PatchSegmentIds \cup { <<"seg", "2">> }

PatchWordLists(segmentId) ==
  CASE segmentId = <<"seg", "0">> -> { <<>>, <<WordA>>, <<WordA, WordB>> }
    [] segmentId = <<"seg", "1">> -> { <<>>, <<WordComma>> }
    [] segmentId = <<"seg", "2">> -> { <<>>, <<WordPeriod>>, <<WordC>>, <<WordPeriod, WordC>> }

\* parseInt(field, 10) of the id fields that occur
parseInt(field) == CASE field = "0" -> 0 [] field = "1" -> 1 [] field = "2" -> 2

\* the fields parseInt turns into a number; of every other field it makes NaN
NumericFields == {"0", "1", "2"}

\* segment ids as the server may name them: "seg_0", "seg_1", "seg",
\* "seg_", "seg_abc" and "seg_1_2", split at "_"
OrderSegmentIds ==
  SegmentIds \cup { <<"seg">>, <<"seg", "">>, <<"seg", "abc">>, <<"seg", "1", "2">> }

\* session ids: 0 is null, n > 0 is the id of the n-th recording
NoSession == 0
EventSessionIds == 1..(MaxSessions + 1)

EventTexts == { <<"a">> }

\* ------------------------------------------------------------------------
\* State
\* ------------------------------------------------------------------------
VARIABLES
  mounted,                     \* the mount effects have run
  sessionIdRef,                \* App.jsx:12
  partialText,                 \* App.jsx:19
  finalText,                   \* App.jsx:20
  words,                       \* App.jsx:23
  segments,                    \* App.jsx:26
  finalEditorValue,            \* App.jsx:56
  isFinalDirty,                \* App.jsx:57
  isFinalDirtyRef,             \* App.jsx:58
  lastAppliedServerFinalText,  \* App.jsx:61
  committedFinalText,          \* App.jsx:64
  hasNewFinalUpdate,           \* App.jsx:65
  editorChildren,              \* editor.children, FinalEditor.jsx:153
  isFirstRender,               \* FinalEditor.jsx:154
  prevValueRef,                \* FinalEditor.jsx:155
  isInternalChangeRef,         \* FinalEditor.jsx:156
  valueIsChildren,             \* finalEditorValue === editor.children (same object)
  audioUrl,                    \* App.jsx:18, TRUE when set: the <audio> element is rendered (App.jsx:887-904)
  activeWid,                   \* App.jsx:29
  rafId,                       \* App.jsx:557, TRUE when an animation frame is requested
  frames,                      \* the frame callbacks requested (App.jsx:569, 573) and neither run nor cancelled
  recStatus,                   \* App.jsx:16
  currentSessionStatus,        \* part_001:47, "none" for null
  startCalls,                  \* the calls of startRecording so far
  awaitingStream,              \* calls of startRecording waiting for getUserMedia (App.jsx:446)
  recorders,                   \* the MediaRecorders created (App.jsx:453): state, and the session id its stop listener holds
  delayed,                     \* recorders whose call waits for the 100 ms delay (App.jsx:480)
  mediaRecorderRef,            \* App.jsx:8, 0 for null; streamRef (App.jsx:9) holds the stream of the same call
  stopTimers,                  \* session ids of the 200 ms timers set by stop listeners (App.jsx:513-517)
  buffers,                     \* chunks whose arrayBuffer() is awaited (App.jsx:460)
  sent,                        \* history: the messages emitted to the server, in order
  lastEvent                    \* history: the handler that ran last; stale = its event was for another session

transcriptVars == <<partialText, finalText, words, segments, committedFinalText>>
dirtyVars == <<isFinalDirty, isFinalDirtyRef, lastAppliedServerFinalText, hasNewFinalUpdate>>
editorVars == <<editorChildren, isFirstRender, prevValueRef, isInternalChangeRef, valueIsChildren>>
engineVars == <<transcriptVars, dirtyVars, finalEditorValue, editorVars>>
playbackVars == <<audioUrl, activeWid, rafId, frames>>
callVars == <<startCalls, awaitingStream>>
recorderVars == <<recStatus, callVars, recorders, delayed, mediaRecorderRef, stopTimers, buffers, sent>>
vars == <<mounted, sessionIdRef, engineVars, playbackVars, currentSessionStatus, recorderVars, lastEvent>>

\* ------------------------------------------------------------------------
\* Committed text (App.jsx:217-236)
\* ------------------------------------------------------------------------
\* a.split("_").pop() || "0"
CommitField(segId) ==
  LET last == segId[Len(segId)]
  IN IF last = "" THEN "0" ELSE last

CommitKey(segId) == parseInt(CommitField(segId))

\* numA - numB <= 0 as sort reads it: a NaN difference counts as 0
CommitLessEq(a, b) ==
  \/ CommitField(a) \notin NumericFields
  \/ CommitField(b) \notin NumericFields
  \/ CommitKey(a) <= CommitKey(b)

\* Object.keys(segments).sort((a, b) => numA - numB).  With a NaN key among
\* the ids the comparator is inconsistent and the order is the engine's choice;
\* ids with such keys are delivered only in interim segments (OrderPatchEvent),
\* whose place in the order no state depends on.
RECURSIVE SortedIds(_)
SortedIds(ids) ==
  IF ids = {} THEN <<>>
  ELSE LET m == CHOOSE x \in ids : \A y \in ids : CommitLessEq(x, y)
       IN <<m>> \o SortedIds(ids \ {m})

sortedSegmentIds(segs) == SortedIds(DOMAIN segs)

RECURSIVE WordTexts(_)
WordTexts(ws) == IF ws = <<>> THEN <<>> ELSE <<ws[1].text>> \o WordTexts(Tail(ws))

\* the loop of App.jsx:225-232 over the ids that remain
RECURSIVE ConcatFinal(_, _, _)
ConcatFinal(segs, ids, text) ==
  IF ids = <<>> THEN text
  ELSE LET seg == segs[ids[1]]
           segText == Join(WordTexts(seg.words), <<" ">>)
       IN ConcatFinal(segs, Tail(ids),
            IF seg.isFinal
            THEN text \o (IF text # <<>> THEN <<" ">> ELSE <<>>) \o segText
            ELSE text)

buildCommittedTextFromSegments(segs) ==
  CleanUpPunctuation(ConcatFinal(segs, sortedSegmentIds(segs), <<>>))

\* ------------------------------------------------------------------------
\* FinalEditor (FinalEditor.jsx:149-299).  The editor side is the record
\*   [children, flag, prev, value, same, inserted]
\* children = editor.children, flag = isInternalChangeRef.current,
\* prev = prevValueRef.current, value = the value prop (finalEditorValue),
\* same = (value === editor.children), inserted = Transforms.insertText was
\* applied and Slate's change notification is still to be delivered.
\* ------------------------------------------------------------------------
EditorState ==
  [children |-> editorChildren, flag |-> isInternalChangeRef, prev |-> prevValueRef,
   value |-> finalEditorValue, same |-> valueIsChildren, inserted |-> FALSE]

\* Transforms.insertText(editor, delta, {at: end of the last leaf of the last paragraph})
insertText(children, delta) ==
  LET pi == Len(children)
      li == Len(children[pi].children)
  IN [children EXCEPT ![pi].children[li].text = @ \o delta]

\* <Slate onChange> (FinalEditor.jsx:275-279) with App's onChange prop
\* (App.jsx:800).  setFinalEditorValue(editor.children) is dropped by React
\* when the state already is that object; otherwise App re-renders with the
\* new value and the sync effect takes its first branch
\* (FinalEditor.jsx:162-166).
SlateOnChange(ed) ==
  IF ed.same
  THEN [ed EXCEPT !.flag = TRUE, !.inserted = FALSE]
  ELSE [ed EXCEPT !.value = ed.children, !.same = TRUE, !.flag = FALSE,
                  !.prev = ed.children, !.inserted = FALSE]

\* editor.children = value; editor.selection = null; editor.onChange()
\* (FinalEditor.jsx:173-175, 219-221, 226-228).  slate-react's onChange calls
\* the <Slate onChange> prop synchronously, with value === editor.children.
ReplaceContent(ed, value) ==
  [ed EXCEPT !.children = value, !.value = value, !.same = TRUE, !.flag = TRUE]

\* the smart append of FinalEditor.jsx:200-223
SmartAppend(ed, value, newText, currentEditorText) ==
  LET delta == Slice(newText, Len(currentEditorText))
      lastParagraphIndex == Len(ed.children)
      lastParagraph == ed.children[lastParagraphIndex]
  IN IF lastParagraphIndex > 0 /\ Len(lastParagraph.children) > 0
     THEN IF IsText(lastParagraph.children[Len(lastParagraph.children)])
          THEN [ed EXCEPT !.children = insertText(ed.children, delta), !.value = value,
                          !.same = FALSE, !.inserted = TRUE]
          \* insert_text at a path that is not a text node throws: the catch
          \* block replaces the content (FinalEditor.jsx:216-222)
          ELSE ReplaceContent(ed, value)
     ELSE [ed EXCEPT !.value = value, !.same = FALSE]

\* the condition of FinalEditor.jsx:200
IsAppend(newText, currentEditorText) ==
  /\ currentEditorText # <<>>
  /\ StartsWith(newText, currentEditorText)
  /\ Len(newText) > Len(currentEditorText)

\* the sync effect (FinalEditor.jsx:160-232) run for a new value prop, after
\* the first render
SyncEffect(ed, value) ==
  IF ed.flag
  THEN [ed EXCEPT !.flag = FALSE, !.prev = value, !.value = value, !.same = FALSE]
  ELSE IF value = ed.prev
  THEN [ed EXCEPT !.prev = value, !.value = value, !.same = FALSE]
  ELSE LET newText == getPlainText(value)
           currentEditorText == getPlainText(ed.children)
           synced == IF IsAppend(newText, currentEditorText)
                     THEN SmartAppend(ed, value, newText, currentEditorText)
                     ELSE ReplaceContent(ed, value)
       IN [synced EXCEPT !.prev = value]

\* the sync effect on the first render (FinalEditor.jsx:168-178)
FirstRenderEffect(ed, value) ==
  [ReplaceContent(ed, value) EXCEPT !.prev = value]

\* ------------------------------------------------------------------------
\* The committed-text effect of App (App.jsx:238-248), run in a render whose
\* state is (segs, committed, dirty, lastApplied).  set* tell which setters
\* are called.
\* ------------------------------------------------------------------------
\* CommittedTextEffect without the test of isFinalDirty at App.jsx:242
CommittedTextEffect_IgnoresDirty(segs, committed, dirty, lastApplied) ==
  LET newCommitted == buildCommittedTextFromSegments(segs)
      changed == newCommitted # committed
      toEditor == changed /\ newCommitted # <<>>
  IN [committedFinalText |-> newCommitted,
      setEditorValue |-> toEditor,
      editorValue |-> textToSlateValue(newCommitted),
      lastApplied |-> IF toEditor THEN newCommitted ELSE lastApplied,
      setHasNew |-> FALSE]

\* CommittedTextEffect without setCommittedFinalText (App.jsx:240)
CommittedTextEffect_KeepsCommitted(segs, committed, dirty, lastApplied) ==
  LET newCommitted == buildCommittedTextFromSegments(segs)
      changed == newCommitted # committed
      toEditor == changed /\ ~dirty /\ newCommitted # <<>>
  IN [committedFinalText |-> committed,
      setEditorValue |-> toEditor,
      editorValue |-> textToSlateValue(newCommitted),
      lastApplied |-> IF toEditor THEN newCommitted ELSE lastApplied,
      setHasNew |-> changed /\ ~toEditor /\ dirty /\ newCommitted # lastApplied]

\* CommittedTextEffect that holds the committed text back while dirty
CommittedTextEffect_FreezesWhileDirty(segs, committed, dirty, lastApplied) ==
  LET newCommitted == buildCommittedTextFromSegments(segs)
      changed == newCommitted # committed
      toEditor == changed /\ ~dirty /\ newCommitted # <<>>
  IN [committedFinalText |-> IF dirty THEN committed ELSE newCommitted,
      setEditorValue |-> toEditor,
      editorValue |-> textToSlateValue(newCommitted),
      lastApplied |-> IF toEditor THEN newCommitted ELSE lastApplied,
      setHasNew |-> changed /\ ~toEditor /\ dirty /\ newCommitted # lastApplied]

CommittedTextEffect(segs, committed, dirty, lastApplied) ==
  LET newCommitted == buildCommittedTextFromSegments(segs)
      changed == newCommitted # committed
      toEditor == changed /\ ~dirty /\ newCommitted # <<>>
  IN [committedFinalText |-> newCommitted,
      setEditorValue |-> toEditor,
      editorValue |-> textToSlateValue(newCommitted),
      lastApplied |-> IF toEditor THEN newCommitted ELSE lastApplied,
      setHasNew |-> changed /\ ~toEditor /\ dirty /\ newCommitted # lastApplied]

\* ------------------------------------------------------------------------
\* One commit: the state a handler has set, then the effects until nothing
\* changes.  setValue says whether the handler called setFinalEditorValue
\* (with a new object, value).
\*  1. FinalEditor's sync effect runs for the new value prop (child effects
\*     run first);
\*  2. App's committed-text effect runs when one of its dependencies changed;
\*  3. Slate's change notification of an insertText of step 1 is delivered
\*     (a microtask) before React renders again, so its setFinalEditorValue
\*     is the last update of the batch;
\*  4. the next render runs the sync effect for the value of step 2 or 3.
\* ------------------------------------------------------------------------
Settle(ed0, setValue, value, segsSet, segs, committed, dirty, lastApplied, hasNew) ==
  LET ed1 == IF setValue THEN SyncEffect(ed0, value) ELSE ed0
      depsChanged == \/ segsSet
                     \/ committed # committedFinalText
                     \/ dirty # isFinalDirty
                     \/ lastApplied # lastAppliedServerFinalText
      eff == IF depsChanged
             THEN CommittedTextEffect(segs, committed, dirty, lastApplied)
             ELSE [committedFinalText |-> committed, setEditorValue |-> FALSE,
                   editorValue |-> <<>>, lastApplied |-> lastApplied, setHasNew |-> FALSE]
      ed2 == IF ed1.inserted THEN SlateOnChange(ed1)
             ELSE IF eff.setEditorValue
             THEN LET e == SyncEffect(ed1, eff.editorValue)
                  IN IF e.inserted THEN SlateOnChange(e) ELSE e
             ELSE ed1
  IN [ed |-> ed2,
      committedFinalText |-> eff.committedFinalText,
      lastApplied |-> eff.lastApplied,
      hasNew |-> hasNew \/ eff.setHasNew]

\* the state after a commit
Commit(r, dirty, dirtyRef) ==
  /\ finalEditorValue' = r.ed.value
  /\ editorChildren' = r.ed.children
  /\ isInternalChangeRef' = r.ed.flag
  /\ prevValueRef' = r.ed.prev
  /\ valueIsChildren' = r.ed.same
  /\ committedFinalText' = r.committedFinalText
  /\ lastAppliedServerFinalText' = r.lastApplied
  /\ hasNewFinalUpdate' = r.hasNew
  /\ isFinalDirty' = dirty
  \* useEffect(() => { isFinalDirtyRef.current = isFinalDirty }, [isFinalDirty])
  /\ isFinalDirtyRef' = IF dirty # isFinalDirty THEN dirty ELSE dirtyRef

\* ------------------------------------------------------------------------
\* Initial state: the useState / useRef initial values of App.jsx:12-65 and
\* FinalEditor.jsx:153-156, before the mount effects.  <Slate initialValue>
\* puts the value into editor.children.  prevValueRef null is <<>> (no Slate
\* value of the model is the empty array).
\* ------------------------------------------------------------------------
Init ==
  /\ mounted = FALSE
  /\ sessionIdRef = NoSession
  /\ partialText = <<>>
  /\ finalText = <<>>
  /\ words = <<>>
  /\ segments = <<>>
  /\ finalEditorValue = textToSlateValue(<<>>)
  /\ isFinalDirty = FALSE
  /\ isFinalDirtyRef = FALSE
  /\ lastAppliedServerFinalText = <<>>
  /\ committedFinalText = <<>>
  /\ hasNewFinalUpdate = FALSE
  /\ editorChildren = textToSlateValue(<<>>)
  /\ isFirstRender = TRUE
  /\ prevValueRef = <<>>
  /\ isInternalChangeRef = FALSE
  /\ valueIsChildren = TRUE
  /\ audioUrl = FALSE
  /\ activeWid = NoWord
  /\ rafId = FALSE
  /\ frames = 0
  /\ recStatus = "idle"
  /\ currentSessionStatus = "none"
  /\ startCalls = 0
  /\ awaitingStream = 0
  /\ recorders = <<>>
  /\ delayed = <<>>
  /\ mediaRecorderRef = 0
  /\ stopTimers = <<>>
  /\ buffers = 0
  /\ sent = <<>>
  /\ lastEvent = [op |-> "init", stale |-> FALSE]

\* stop(): if (rafId) cancelAnimationFrame(rafId); rafId = null
stop ==
  /\ rafId' = FALSE
  /\ frames' = IF rafId THEN frames - 1 ELSE frames

\* App renders when a setter changed a state value.  orderedWords
\* (App.jsx:541-548) is a new array in every render, so the playback effect
\* (App.jsx:553-598, dependencies [orderedWords]) is cleaned up and run again:
\* the cleanup calls stop(), which cancels the requested frame, and the new
\* run starts with rafId = null.
Render(rendered) ==
  /\ IF rendered THEN stop ELSE UNCHANGED <<rafId, frames>>
  /\ UNCHANGED <<audioUrl, activeWid>>

\* the effects of the first render: FinalEditor.jsx:168-178; App.jsx:185-187
\* and App.jsx:238-248 find nothing to do
Mount ==
  /\ ~mounted
  /\ mounted' = TRUE
  /\ UNCHANGED <<currentSessionStatus, recorderVars>>
  /\ isFirstRender' = FALSE
  /\ LET ed == FirstRenderEffect(EditorState, finalEditorValue)
         r == Settle(ed, FALSE, finalEditorValue, TRUE, segments, committedFinalText,
                     isFinalDirty, lastAppliedServerFinalText, hasNewFinalUpdate)
     IN Commit(r, isFinalDirty, isFinalDirtyRef)
  /\ lastEvent' = [op |-> "mount", stale |-> FALSE]
  /\ Render(TRUE)
  /\ UNCHANGED <<sessionIdRef, partialText, finalText, words, segments>>

\* ------------------------------------------------------------------------
\* Socket events (App.jsx:107-170)
\* ------------------------------------------------------------------------
\* IsActiveSession without the comparison: every event is accepted
IsActiveSession_Any(sid) == TRUE

\* data.sessionId !== sessionIdRef.current is false (App.jsx:109, 119, 137)
IsActiveSession(sid) == sid = sessionIdRef

\* a handler that returns before it sets any state
Discard == UNCHANGED <<sessionIdRef, engineVars, playbackVars>>

\* a commit in which the handler called no setter of the editor or dirty state
NoEditorChange(segsSet, segs) ==
  Commit(Settle(EditorState, FALSE, finalEditorValue, segsSet, segs, committedFinalText,
                isFinalDirty, lastAppliedServerFinalText, hasNewFinalUpdate),
         isFinalDirty, isFinalDirtyRef)

transcript_partial(sid, text) ==
  /\ mounted
  /\ lastEvent' = [op |-> "transcript_partial", stale |-> sid # sessionIdRef]
  /\ UNCHANGED <<mounted, currentSessionStatus, recorderVars>>
  /\ IF ~IsActiveSession(sid)
     THEN Discard
     ELSE /\ partialText' = text
          /\ NoEditorChange(FALSE, segments)
          /\ Render(partialText' # partialText)
          /\ UNCHANGED <<sessionIdRef, finalText, words, segments, isFirstRender>>

transcript_final(sid, text) ==
  /\ mounted
  /\ lastEvent' = [op |-> "transcript_final", stale |-> sid # sessionIdRef]
  /\ UNCHANGED <<mounted, currentSessionStatus, recorderVars>>
  /\ IF ~IsActiveSession(sid)
     THEN Discard
     ELSE /\ finalText' = text
          /\ partialText' = <<>>
          /\ LET toEditor == ~isFinalDirtyRef
                 r == Settle(EditorState, toEditor, textToSlateValue(text), FALSE, segments,
                             committedFinalText, isFinalDirty, lastAppliedServerFinalText,
                             hasNewFinalUpdate \/ ~toEditor)
             IN Commit(r, isFinalDirty, isFinalDirtyRef)
          /\ Render(\/ ~isFinalDirtyRef
                    \/ <<finalText', partialText', hasNewFinalUpdate'>>
                         # <<finalText, partialText, hasNewFinalUpdate>>)
          /\ UNCHANGED <<sessionIdRef, words, segments, isFirstRender>>

\* setSegments (App.jsx:142-148)
StoreSegment(segs, segmentId, ws, isFinal) ==
  [id \in (DOMAIN segs) \cup {segmentId} |->
     IF id = segmentId THEN [words |-> ws, isFinal |-> isFinal] ELSE segs[id]]

IsCommitted(w) == w.isFinal

RECURSIVE MarkWords(_, _)
MarkWords(ws, isFinal) ==
  IF ws = <<>> THEN <<>>
  ELSE << [wid |-> ws[1].wid, text |-> ws[1].text, t0 |-> ws[1].t0, t1 |-> ws[1].t1,
           isFinal |-> isFinal] >> \o MarkWords(Tail(ws), isFinal)

\* MergeWords that does not filter out the wids already committed
MergeWords_NoDedup(prevWords, ws, isFinal) ==
  SelectSeq(prevWords, IsCommitted) \o MarkWords(ws, isFinal)

\* MergeWords that appends interim words instead of replacing the interim tail
MergeWords_AppendInterim(prevWords, ws, isFinal) ==
  LET committed == SelectSeq(prevWords, IsCommitted)
      existingWids == { committed[i].wid : i \in 1..Len(committed) }
      IsNew(w) == w.wid \notin existingWids
  IN IF isFinal
     THEN committed \o MarkWords(SelectSeq(ws, IsNew), TRUE)
     ELSE prevWords \o MarkWords(ws, FALSE)

\* MergeWords that replaces the whole list by the words of an interim patch
MergeWords_DropCommitted(prevWords, ws, isFinal) ==
  LET committed == SelectSeq(prevWords, IsCommitted)
      existingWids == { committed[i].wid : i \in 1..Len(committed) }
      IsNew(w) == w.wid \notin existingWids
  IN IF isFinal
     THEN committed \o MarkWords(SelectSeq(ws, IsNew), TRUE)
     ELSE MarkWords(ws, FALSE)

\* setWords (App.jsx:151-167); no word has the property "edited"
MergeWords(prevWords, ws, isFinal) ==
  LET committed == SelectSeq(prevWords, IsCommitted)
      existingWids == { committed[i].wid : i \in 1..Len(committed) }
      IsNew(w) == w.wid \notin existingWids
  IN IF isFinal
     THEN committed \o MarkWords(SelectSeq(ws, IsNew), TRUE)
     ELSE committed \o MarkWords(ws, FALSE)

transcript_patch(sid, segmentId, ws, isFinal) ==
  /\ mounted
  /\ lastEvent' = [op |-> "transcript_patch", stale |-> sid # sessionIdRef]
  /\ UNCHANGED <<mounted, currentSessionStatus, recorderVars>>
  /\ IF ~IsActiveSession(sid)
     THEN Discard
     ELSE /\ segments' = StoreSegment(segments, segmentId, ws, isFinal)
          /\ words' = MergeWords(words, ws, isFinal)
          /\ NoEditorChange(TRUE, segments')
          /\ Render(TRUE)
          /\ UNCHANGED <<sessionIdRef, partialText, finalText, isFirstRender>>

\* ------------------------------------------------------------------------
\* startRecording, up to its first await (App.jsx:410-434): a new session id
\* and the reset of all state
\* ------------------------------------------------------------------------
startRecording ==
  /\ mounted
  /\ recStatus = "idle"
  /\ startCalls < MaxCalls
  /\ sessionIdRef < MaxSessions
  /\ sessionIdRef' = sessionIdRef + 1
  /\ partialText' = <<>>
  /\ finalText' = <<>>
  /\ words' = <<>>
  /\ segments' = <<>>
  /\ LET r == Settle(EditorState, TRUE, textToSlateValue(<<>>), TRUE, <<>>, <<>>,
                     FALSE, <<>>, FALSE)
     IN Commit(r, FALSE, FALSE)
  /\ lastEvent' = [op |-> "startRecording", stale |-> FALSE]
  \* setAudioUrl(null) unmounts the <audio> element
  /\ audioUrl' = FALSE
  /\ stop
  /\ activeWid' = activeWid
  /\ startCalls' = startCalls + 1
  /\ awaitingStream' = awaitingStream + 1
  /\ UNCHANGED <<recStatus, recorders, delayed, mediaRecorderRef, stopTimers, buffers, sent>>
  /\ UNCHANGED <<mounted, currentSessionStatus, isFirstRender>>

\* ------------------------------------------------------------------------
\* loadSession, from the arrival of the response (App.jsx:302-323)
\* ------------------------------------------------------------------------
LoadData ==
  { [session |-> FALSE, finalText |-> <<>>, hasSegments |-> FALSE, segments |-> <<>>],
    [session |-> TRUE, finalText |-> <<"a">>, hasSegments |-> FALSE, segments |-> <<>>],
    [session |-> TRUE, finalText |-> <<>>, hasSegments |-> TRUE,
     segments |-> << [words |-> <<WordA>>, isFinal |-> TRUE] >>] }

\* allWords of App.jsx:312-319
RECURSIVE AllWords(_)
AllWords(segs) ==
  IF segs = <<>> THEN <<>>
  ELSE MarkWords(segs[1].words, segs[1].isFinal # FALSE) \o AllWords(Tail(segs))

loadSession(data) ==
  /\ mounted
  /\ lastEvent' = [op |-> "loadSession", stale |-> FALSE]
  /\ stop
  /\ activeWid' = activeWid
  /\ IF ~data.session
     THEN UNCHANGED <<sessionIdRef, engineVars, audioUrl>>
     ELSE /\ audioUrl' = TRUE
          /\ finalText' = data.finalText
          /\ words' = IF data.hasSegments THEN AllWords(data.segments) ELSE words
          /\ LET r == Settle(EditorState, TRUE, textToSlateValue(data.finalText), FALSE,
                             segments, data.finalText, FALSE,
                             lastAppliedServerFinalText, hasNewFinalUpdate)
             IN Commit(r, FALSE, isFinalDirtyRef)
          /\ UNCHANGED <<sessionIdRef, partialText, segments, isFirstRender>>
  /\ UNCHANGED <<mounted, currentSessionStatus, recorderVars>>

\* ------------------------------------------------------------------------
\* Merge banner and its handlers (App.jsx:251-282)
\* ------------------------------------------------------------------------
newAsrAvailable ==
  /\ isFinalDirty
  /\ committedFinalText # lastAppliedServerFinalText
  /\ Len(committedFinalText) > 0

\* delta of App.jsx:257
AppendDelta(committed, lastApplied) == Trim(Slice(committed, Len(lastApplied)))

\* AppendedText without the separating space
AppendedText_NoSeparator(value, delta) == slateToPlainText(value) \o delta

\* newText of App.jsx:260-261
AppendedText(value, delta) ==
  LET currentEditorText == slateToPlainText(value)
  IN currentEditorText \o (IF EndsWithSpace(currentEditorText) THEN <<>> ELSE <<" ">>) \o delta

handleAppendAsr ==
  /\ mounted
  /\ newAsrAvailable
  /\ LET delta == AppendDelta(committedFinalText, lastAppliedServerFinalText)
         newText == AppendedText(finalEditorValue, delta)
     IN /\ Len(slateToPlainText(finalEditorValue)) <= MaxDocLen
        /\ LET r == Settle(EditorState, delta # <<>>, textToSlateValue(newText), FALSE,
                           segments, committedFinalText, isFinalDirty, committedFinalText,
                           FALSE)
           IN Commit(r, isFinalDirty, isFinalDirtyRef)
  /\ lastEvent' = [op |-> "handleAppendAsr", stale |-> FALSE]
  /\ Render(TRUE)
  /\ UNCHANGED <<mounted, currentSessionStatus, recorderVars, sessionIdRef, partialText, finalText, words, segments, isFirstRender>>

handleReplaceWithAsr ==
  /\ mounted
  /\ newAsrAvailable
  /\ LET r == Settle(EditorState, TRUE, textToSlateValue(committedFinalText), FALSE,
                     segments, committedFinalText, FALSE, committedFinalText, FALSE)
     IN Commit(r, FALSE, FALSE)
  /\ lastEvent' = [op |-> "handleReplaceWithAsr", stale |-> FALSE]
  /\ Render(TRUE)
  /\ UNCHANGED <<mounted, currentSessionStatus, recorderVars, sessionIdRef, partialText, finalText, words, segments, isFirstRender>>

\* handleIgnoreAsr without setLastAppliedServerFinalText
handleIgnoreAsr_KeepsLastApplied ==
  /\ mounted
  /\ newAsrAvailable
  /\ LET r == Settle(EditorState, FALSE, finalEditorValue, FALSE, segments,
                     committedFinalText, isFinalDirty, lastAppliedServerFinalText, FALSE)
     IN Commit(r, isFinalDirty, isFinalDirtyRef)
  /\ lastEvent' = [op |-> "handleIgnoreAsr", stale |-> FALSE]
  /\ Render(TRUE)
  /\ UNCHANGED <<mounted, currentSessionStatus, recorderVars, sessionIdRef, partialText, finalText, words, segments, isFirstRender>>

handleIgnoreAsr ==
  /\ mounted
  /\ newAsrAvailable
  /\ LET r == Settle(EditorState, FALSE, finalEditorValue, FALSE, segments,
                     committedFinalText, isFinalDirty, committedFinalText, FALSE)
     IN Commit(r, isFinalDirty, isFinalDirtyRef)
  /\ lastEvent' = [op |-> "handleIgnoreAsr", stale |-> FALSE]
  /\ Render(TRUE)
  /\ UNCHANGED <<mounted, currentSessionStatus, recorderVars, sessionIdRef, partialText, finalText, words, segments, isFirstRender>>

\* ------------------------------------------------------------------------
\* The user in the editor.  Slate applies the edit to editor.children and
\* then calls <Slate onChange> (FinalEditor.jsx:275-279); a change of the
\* selection calls it with editor.children unchanged.
\* ------------------------------------------------------------------------
\* "type": a character at the end of the last leaf; "delete": its last
\* character; "bold": toggle the bold mark of the whole last leaf
Edits == {"type", "delete", "bold"}

\* edits that change the structure of the document: Enter at the end of the
\* document (insertBreak), and Ctrl+B with the first character of the last
\* leaf selected (toggleMark splits the leaf)
StructuralEdits == {"enter", "boldFirst"}

LastLeafText(children) ==
  LET pi == Len(children) IN children[pi].children[Len(children[pi].children)].text

CanEdit(children, edit) ==
  /\ Len(children) > 0
  /\ Len(children[Len(children)].children) > 0
  /\ IsText(children[Len(children)].children[Len(children[Len(children)].children)])
  /\ edit = "type" => Len(getPlainText(children)) < MaxDocLen
  /\ edit \in {"delete", "bold"} => LastLeafText(children) # <<>>
  /\ edit = "enter" => Len(children) < MaxParagraphs
  /\ edit = "boldFirst" => /\ Len(children[Len(children)].children) = 1
                           /\ Len(LastLeafText(children)) >= 2

ApplyEdit(children, edit) ==
  LET pi == Len(children)
      li == Len(children[pi].children)
  IN CASE edit = "type" -> [children EXCEPT ![pi].children[li].text = @ \o <<"z">>]
       [] edit = "delete" ->
            [children EXCEPT ![pi].children[li].text = SubSeq(@, 1, Len(@) - 1)]
       [] edit = "bold" -> [children EXCEPT ![pi].children[li].bold = ~@]
       [] edit = "enter" ->
            Append(children,
                   [children |-> << [text |-> <<>>, bold |-> children[pi].children[li].bold] >>])
       [] edit = "boldFirst" ->
            LET leaf == children[pi].children[li]
            IN [children EXCEPT ![pi].children =
                  << [text |-> <<Head(leaf.text)>>, bold |-> ~leaf.bold],
                     [text |-> Tail(leaf.text), bold |-> leaf.bold] >>]

\* the editor after the user's edit and the onChange it raises
EditorAfterEdit(edit) ==
  SlateOnChange([EditorState EXCEPT !.children = ApplyEdit(editorChildren, edit),
                                    !.same = FALSE])

\* FinalEditor as in src: only onChange is called (FinalEditor.jsx:149-152, 275-279)
EditorOnChange(edit) ==
  /\ mounted
  /\ CanEdit(editorChildren, edit)
  /\ LET r == Settle(EditorAfterEdit(edit), FALSE, finalEditorValue, FALSE, segments,
                     committedFinalText, isFinalDirty, lastAppliedServerFinalText,
                     hasNewFinalUpdate)
     IN Commit(r, isFinalDirty, isFinalDirtyRef)
  /\ lastEvent' = [op |-> "user_edit", stale |-> FALSE]
  /\ Render(TRUE)
  /\ UNCHANGED <<mounted, currentSessionStatus, recorderVars, sessionIdRef, partialText, finalText, words, segments, isFirstRender>>

SelectionChange ==
  /\ mounted
  /\ LET r == Settle(SlateOnChange(EditorState), FALSE, finalEditorValue, FALSE, segments,
                     committedFinalText, isFinalDirty, lastAppliedServerFinalText,
                     hasNewFinalUpdate)
     IN Commit(r, isFinalDirty, isFinalDirtyRef)
  /\ lastEvent' = [op |-> "selection_change", stale |-> FALSE]
  /\ Render(~valueIsChildren)
  /\ UNCHANGED <<mounted, currentSessionStatus, recorderVars, sessionIdRef, partialText, finalText, words, segments, isFirstRender>>

\* an editor that also raises the "document changed by user" notification
\* App hands it: onUserEdit (App.jsx:801-804) sets isFinalDirty and its ref
onUserEdit(edit) ==
  /\ mounted
  /\ CanEdit(editorChildren, edit)
  /\ LET r == Settle(EditorAfterEdit(edit), FALSE, finalEditorValue, FALSE, segments,
                     committedFinalText, TRUE, lastAppliedServerFinalText,
                     hasNewFinalUpdate)
     IN Commit(r, TRUE, TRUE)
  /\ lastEvent' = [op |-> "user_edit", stale |-> FALSE]
  /\ Render(TRUE)
  /\ UNCHANGED <<mounted, currentSessionStatus, recorderVars, sessionIdRef, partialText, finalText, words, segments, isFirstRender>>

\* ------------------------------------------------------------------------
\* Playback (App.jsx:96-104, 541-598)
\* ------------------------------------------------------------------------
\* parseInt(a.split("_")[1] || "0", 10)
OrderField(segId) ==
  IF Len(segId) < 2 \/ segId[2] = "" THEN "0" ELSE segId[2]

OrderKey(segId) == parseInt(OrderField(segId))

\* Object.entries(segments).sort(([a], [b]) => na - nb), the ids
RECURSIVE OrderedIds(_)
OrderedIds(ids) ==
  IF ids = {} THEN <<>>
  ELSE LET m == CHOOSE x \in ids : \A y \in ids : OrderKey(x) <= OrderKey(y)
       IN <<m>> \o OrderedIds(ids \ {m})

\* .flatMap(([_, seg]) => seg?.words || [])
RECURSIVE FlatWords(_, _)
FlatWords(segs, ids) ==
  IF ids = <<>> THEN <<>> ELSE segs[ids[1]].words \o FlatWords(segs, Tail(ids))

HasTimes(w) == w.t0 # NoTime /\ w.t1 # NoTime

orderedWords == SelectSeq(FlatWords(segments, OrderedIds(DOMAIN segments)), HasTimes)

\* findActive with the end of the interval included
RECURSIVE findActive_ClosedEnd(_, _)
findActive_ClosedEnd(ws, t) ==
  IF ws = <<>> THEN NoWord
  ELSE IF ws[1].t0 <= t /\ t <= ws[1].t1 THEN ws[1].wid
  ELSE findActive_ClosedEnd(Tail(ws), t)

\* findActive(t) over the words ws, giving w ? w.wid : null
RECURSIVE findActive(_, _)
findActive(ws, t) ==
  IF ws = <<>> THEN NoWord
  ELSE IF ws[1].t0 <= t /\ t < ws[1].t1 THEN ws[1].wid
  ELSE findActive(Tail(ws), t)

\* socket.on("recording_saved"): with data.ok the url of the recording is
\* stored and the <audio> element appears; sameUrl says that data.sessionId
\* gives the url that is already stored, so that App does not render; sid is
\* data.sessionId, which the handler does not compare with sessionIdRef
recording_saved(sid, ok, sameUrl) ==
  /\ mounted
  /\ lastEvent' = [op |-> "recording_saved", stale |-> sid # sessionIdRef]
  /\ IF ~ok
     THEN Discard
     ELSE /\ audioUrl' = TRUE
          /\ IF audioUrl /\ sameUrl THEN UNCHANGED <<rafId, frames>> ELSE stop
          /\ UNCHANGED <<sessionIdRef, engineVars, activeWid>>
  /\ UNCHANGED <<mounted, currentSessionStatus, recorderVars>>

\* start() without the test of rafId
play_NoGuard ==
  /\ mounted
  /\ audioUrl
  /\ rafId' = TRUE
  /\ frames' = frames + 1
  /\ lastEvent' = [op |-> "play", stale |-> FALSE]
  /\ UNCHANGED <<mounted, currentSessionStatus, recorderVars, sessionIdRef, engineVars, audioUrl, activeWid>>

\* the audio element fires play: start(), if (!rafId) rafId = requestAnimationFrame(tick)
play ==
  /\ mounted
  /\ audioUrl
  /\ rafId' = TRUE
  /\ frames' = IF rafId THEN frames ELSE frames + 1
  /\ lastEvent' = [op |-> "play", stale |-> FALSE]
  /\ UNCHANGED <<mounted, currentSessionStatus, recorderVars, sessionIdRef, engineVars, audioUrl, activeWid>>

\* the audio element fires pause: stop()
pause ==
  /\ mounted
  /\ audioUrl
  /\ stop
  /\ lastEvent' = [op |-> "pause", stale |-> FALSE]
  /\ UNCHANGED <<mounted, currentSessionStatus, recorderVars, sessionIdRef, engineVars, audioUrl, activeWid>>

\* the audio element fires ended: stop()
ended ==
  /\ mounted
  /\ audioUrl
  /\ stop
  /\ lastEvent' = [op |-> "ended", stale |-> FALSE]
  /\ UNCHANGED <<mounted, currentSessionStatus, recorderVars, sessionIdRef, engineVars, audioUrl, activeWid>>

\* onSeeked with audio.currentTime = t; App renders when activeWid changes
onSeeked(t) ==
  /\ mounted
  /\ audioUrl
  /\ activeWid' = findActive(orderedWords, t)
  /\ IF activeWid' # activeWid THEN stop ELSE UNCHANGED <<rafId, frames>>
  /\ lastEvent' = [op |-> "seeked", stale |-> FALSE]
  /\ UNCHANGED <<mounted, currentSessionStatus, recorderVars, sessionIdRef, engineVars, audioUrl>>

\* a requested frame runs tick with audio.currentTime = t: setActiveWid,
\* then the next frame is requested and stored in rafId; App renders when
\* activeWid changes, and the cleanup of the playback effect cancels the
\* frame just requested
tick(t) ==
  /\ mounted
  /\ frames > 0
  /\ activeWid' = findActive(orderedWords, t)
  /\ IF activeWid' # activeWid
     THEN rafId' = FALSE /\ frames' = frames - 1
     ELSE rafId' = TRUE /\ frames' = frames
  /\ lastEvent' = [op |-> "tick", stale |-> FALSE]
  /\ UNCHANGED <<mounted, currentSessionStatus, recorderVars, sessionIdRef, engineVars, audioUrl>>

\* ------------------------------------------------------------------------
\* The auto-append variant of App (src/unnamed/part_001).  It renders the
\* same FinalEditor with value and onChange (part_001:848-851) and never sets
\* isFinalDirty, lastAppliedServerFinalText or hasNewFinalUpdate to anything
\* but their initial values.
\* ------------------------------------------------------------------------
\* AutoAppendEffect that puts the whole new committed text into the editor
AutoAppendEffect_Replaces(segs, committed, value) ==
  LET newCommitted == buildCommittedTextFromSegments(segs)
      grown == newCommitted # committed /\ Len(newCommitted) > Len(committed)
  IN [committedFinalText |-> newCommitted,
      setEditorValue |-> grown,
      editorValue |-> textToSlateValue(newCommitted)]

\* AutoAppendEffect that also follows a committed text that became shorter
AutoAppendEffect_FollowsShrink(segs, committed, value) ==
  LET newCommitted == buildCommittedTextFromSegments(segs)
      delta == Trim(Slice(newCommitted, Len(committed)))
      currentEditorText == slateToPlainText(value)
      separator == IF currentEditorText # <<>> /\ ~EndsWithSpace(currentEditorText)
                   THEN <<" ">> ELSE <<>>
      grown == newCommitted # committed /\ Len(newCommitted) > Len(committed)
  IN [committedFinalText |-> newCommitted,
      setEditorValue |-> newCommitted # committed,
      editorValue |-> IF grown THEN textToSlateValue(currentEditorText \o separator \o delta)
                      ELSE textToSlateValue(newCommitted)]

\* the committed-text effect of part_001:256-301, run in a render whose state
\* is (segs, committed, value)
AutoAppendEffect(segs, committed, value) ==
  LET newCommitted == buildCommittedTextFromSegments(segs)
      oldCommitted == committed
      changed == newCommitted # committed
      delta == Trim(Slice(newCommitted, Len(oldCommitted)))
      currentEditorText == slateToPlainText(value)
      separator == IF currentEditorText # <<>> /\ ~EndsWithSpace(currentEditorText)
                   THEN <<" ">> ELSE <<>>
      newText == currentEditorText \o separator \o delta
      grown == changed /\ Len(newCommitted) > Len(oldCommitted)
      first == changed /\ ~grown /\ oldCommitted = <<>> /\ newCommitted # <<>>
  IN [committedFinalText |-> newCommitted,
      setEditorValue |-> (grown /\ delta # <<>>) \/ first,
      editorValue |-> IF grown THEN textToSlateValue(newText)
                      ELSE textToSlateValue(newCommitted)]

\* one commit of the variant: as Settle, with the effect of part_001 and its
\* dependencies [segments, committedFinalText, finalEditorValue]
AutoAppendSettle(ed0, setValue, value, segsSet, segs, committed) ==
  LET ed1 == IF setValue THEN SyncEffect(ed0, value) ELSE ed0
      depsChanged == \/ segsSet
                     \/ committed # committedFinalText
                     \/ ed1.value # finalEditorValue
      eff == IF depsChanged
             THEN AutoAppendEffect(segs, committed, ed1.value)
             ELSE [committedFinalText |-> committed, setEditorValue |-> FALSE,
                   editorValue |-> <<>>]
      ed2 == IF ed1.inserted THEN SlateOnChange(ed1)
             ELSE IF eff.setEditorValue
             THEN LET e == SyncEffect(ed1, eff.editorValue)
                  IN IF e.inserted THEN SlateOnChange(e) ELSE e
             ELSE ed1
  IN [ed |-> ed2, committedFinalText |-> eff.committedFinalText]

\* the state after a commit of the variant
AutoAppendCommit(r) ==
  /\ finalEditorValue' = r.ed.value
  /\ editorChildren' = r.ed.children
  /\ isInternalChangeRef' = r.ed.flag
  /\ prevValueRef' = r.ed.prev
  /\ valueIsChildren' = r.ed.same
  /\ committedFinalText' = r.committedFinalText
  /\ UNCHANGED dirtyVars

\* socket.on("transcript_patch") of part_001:167-206
AutoAppendPatch(sid, segmentId, ws, isFinal) ==
  /\ mounted
  /\ lastEvent' = [op |-> "transcript_patch", stale |-> sid # sessionIdRef]
  /\ UNCHANGED <<mounted, currentSessionStatus, recorderVars>>
  /\ IF ~IsActiveSession(sid)
     THEN Discard
     ELSE /\ segments' = StoreSegment(segments, segmentId, ws, isFinal)
          /\ words' = MergeWords(words, ws, isFinal)
          /\ partialText' = IF isFinal THEN <<>> ELSE partialText
          /\ AutoAppendCommit(AutoAppendSettle(EditorState, FALSE, finalEditorValue, TRUE,
                                               segments', committedFinalText))
          /\ Render(TRUE)
          /\ UNCHANGED <<sessionIdRef, finalText, isFirstRender>>

\* the id of the stored session that is loaded
LoadedSessionId == 1

\* a stored document whose last paragraph has no children, and one whose
\* last paragraph ends with an element
NoChildrenDoc ==
  << [children |-> << [text |-> <<"a">>, bold |-> FALSE] >>], [children |-> <<>>] >>

ElementDoc ==
  << [children |-> << [text |-> <<"a">>, bold |-> FALSE], [children |-> <<>>] >>] >>

BoldDoc == << [children |-> << [text |-> <<"a">>, bold |-> TRUE] >>] >>

\* responses of GET /api/sessions/:sid (part_001:320-361)
StoredSessions ==
  { [session |-> FALSE, finalText |-> <<>>, hasSlate |-> FALSE, slateContent |-> <<>>,
     hasSegments |-> FALSE, segments |-> <<>>],
    [session |-> TRUE, finalText |-> <<"a">>, hasSlate |-> FALSE, slateContent |-> <<>>,
     hasSegments |-> TRUE,
     segments |-> << [segmentId |-> <<"seg", "0">>, words |-> <<WordA>>, isFinal |-> TRUE] >>],
    [session |-> TRUE, finalText |-> <<>>, hasSlate |-> FALSE, slateContent |-> <<>>,
     hasSegments |-> TRUE,
     segments |-> << [segmentId |-> <<"seg", "0">>, words |-> <<WordA>>, isFinal |-> TRUE] >>],
    [session |-> TRUE, finalText |-> <<"a">>, hasSlate |-> TRUE, slateContent |-> BoldDoc,
     hasSegments |-> FALSE, segments |-> <<>>],
    [session |-> TRUE, finalText |-> <<"a", "\n">>, hasSlate |-> TRUE,
     slateContent |-> NoChildrenDoc, hasSegments |-> FALSE, segments |-> <<>>],
    [session |-> TRUE, finalText |-> <<"a">>, hasSlate |-> TRUE, slateContent |-> ElementDoc,
     hasSegments |-> FALSE, segments |-> <<>>] }

\* loadedSegments of part_001:350-356
RECURSIVE LoadedSegments(_)
LoadedSegments(segs) ==
  IF segs = <<>> THEN <<>>
  ELSE LET rest == LoadedSegments(SubSeq(segs, 1, Len(segs) - 1))
           seg == segs[Len(segs)]
       IN StoreSegment(rest, seg.segmentId, seg.words, seg.isFinal # FALSE)

\* loadSession of part_001:316-369, from the arrival of the response
AutoAppendLoadSession(data) ==
  /\ mounted
  /\ lastEvent' = [op |-> "loadSession", stale |-> FALSE]
  /\ stop
  /\ activeWid' = activeWid
  /\ IF ~data.session
     THEN UNCHANGED <<sessionIdRef, engineVars, audioUrl, currentSessionStatus>>
     ELSE /\ sessionIdRef' = LoadedSessionId
          /\ currentSessionStatus' = "finalized"
          /\ audioUrl' = TRUE
          /\ finalText' = data.finalText
          /\ words' = IF data.hasSegments THEN AllWords(data.segments) ELSE words
          /\ segments' = IF data.hasSegments THEN LoadedSegments(data.segments) ELSE segments
          /\ LET value == IF data.hasSlate THEN data.slateContent
                          ELSE textToSlateValue(data.finalText)
             IN AutoAppendCommit(AutoAppendSettle(EditorState, TRUE, value, data.hasSegments,
                                                  segments', data.finalText))
          /\ UNCHANGED <<partialText, isFirstRender>>
  /\ UNCHANGED <<mounted, recorderVars>>

\* startRecording of part_001, up to its first await (part_001:518-553): a
\* session id only when there is none, and the reset of the content
AutoAppendStartRecording ==
  /\ mounted
  /\ recStatus = "idle"
  /\ currentSessionStatus # "finalized"
  /\ startCalls < MaxCalls
  /\ sessionIdRef' = IF sessionIdRef = NoSession THEN LoadedSessionId + 1 ELSE sessionIdRef
  /\ partialText' = <<>>
  /\ finalText' = <<>>
  /\ words' = <<>>
  /\ segments' = <<>>
  /\ AutoAppendCommit(AutoAppendSettle(EditorState, TRUE, textToSlateValue(<<>>), TRUE,
                                       <<>>, <<>>))
  /\ lastEvent' = [op |-> "startRecording", stale |-> FALSE]
  /\ audioUrl' = FALSE
  /\ stop
  /\ activeWid' = activeWid
  /\ startCalls' = startCalls + 1
  /\ awaitingStream' = awaitingStream + 1
  /\ UNCHANGED <<recStatus, recorders, delayed, mediaRecorderRef, stopTimers, buffers, sent>>
  /\ UNCHANGED <<mounted, currentSessionStatus, isFirstRender>>

\* createNewSession (part_001:389-416)
createNewSession ==
  /\ mounted
  /\ recStatus = "idle"
  /\ sessionIdRef' = NoSession
  /\ partialText' = <<>>
  /\ finalText' = <<>>
  /\ words' = <<>>
  /\ segments' = <<>>
  /\ AutoAppendCommit(AutoAppendSettle(EditorState, TRUE, textToSlateValue(<<>>), TRUE,
                                       <<>>, <<>>))
  /\ lastEvent' = [op |-> "createNewSession", stale |-> FALSE]
  /\ audioUrl' = FALSE
  /\ stop
  /\ activeWid' = activeWid
  /\ currentSessionStatus' = "none"
  /\ UNCHANGED <<mounted, recorderVars, isFirstRender>>

\* a user edit in the variant: onChange={(val) => setFinalEditorValue(val)}
AutoAppendEditorOnChange(edit) ==
  /\ mounted
  /\ CanEdit(editorChildren, edit)
  /\ AutoAppendCommit(AutoAppendSettle(EditorAfterEdit(edit), FALSE, finalEditorValue, FALSE,
                                       segments, committedFinalText))
  /\ lastEvent' = [op |-> "user_edit", stale |-> FALSE]
  /\ Render(TRUE)
  /\ UNCHANGED <<mounted, currentSessionStatus, recorderVars, sessionIdRef, partialText, finalText, words, segments, isFirstRender>>

\* ------------------------------------------------------------------------
\* The recorder (App.jsx:446-536, part_001:565-673).  startRecording
\* continues after getUserMedia and again after the 100 ms delay; a recorder
\* delivers chunks while it records and once more when it stops; the bytes
\* of a chunk are read asynchronously before it is emitted.
\* ------------------------------------------------------------------------
Emit(msgs, type, sid) == Append(msgs, [type |-> type, sessionId |-> sid])

\* the steps of the recorder leave the transcript, the editor and the session
\* alone; setRecStatus renders App when the status changes
RecorderStep(op) ==
  /\ lastEvent' = [op |-> op, stale |-> FALSE]
  /\ Render(recStatus' # recStatus)
  /\ UNCHANGED <<mounted, sessionIdRef, engineVars>>

\* getUserMedia resolves (App.jsx:446-477): the recorder is created and
\* stored, start_transcription is emitted, the 100 ms delay begins
gotUserMedia ==
  /\ awaitingStream > 0
  /\ Len(sent) < MaxSent
  /\ awaitingStream' = awaitingStream - 1
  /\ recorders' = Append(recorders, [state |-> "inactive", sessionId |-> NoSession])
  /\ mediaRecorderRef' = Len(recorders) + 1
  /\ sent' = Emit(sent, "start_transcription", sessionIdRef)
  /\ delayed' = Append(delayed, Len(recorders) + 1)
  /\ UNCHANGED <<recStatus, currentSessionStatus, startCalls, stopTimers, buffers>>
  /\ RecorderStep("gotUserMedia")

\* getUserMedia rejects (App.jsx:487-490)
micError ==
  /\ awaitingStream > 0
  /\ awaitingStream' = awaitingStream - 1
  /\ recStatus' = "idle"
  /\ UNCHANGED <<currentSessionStatus, startCalls, recorders, delayed, mediaRecorderRef,
                 stopTimers, buffers, sent>>
  /\ RecorderStep("micError")

\* the delay has passed (App.jsx:480-485): mr.start(250).  A recorder whose
\* stream was stopped in the meantime ("ended") either throws, which the
\* catch turns into recStatus "idle", or starts without ever having data.
delayElapsed ==
  /\ delayed # <<>>
  /\ LET mr == Head(delayed)
     IN \/ /\ recorders[mr].state = "inactive"
           /\ recorders' = [recorders EXCEPT ![mr].state = "recording"]
           /\ recStatus' = "recording"
        \/ /\ recorders[mr].state = "ended"
           /\ recorders' = recorders
           /\ recStatus' \in {"idle", "recording"}
  /\ delayed' = Tail(delayed)
  /\ UNCHANGED <<currentSessionStatus, callVars, mediaRecorderRef, stopTimers, buffers, sent>>
  /\ RecorderStep("delayElapsed")

\* mr.ondataavailable up to its await (App.jsx:456-460); empty says that
\* evt.data has size 0
dataavailable(mr, empty) ==
  /\ recorders[mr].state \in {"recording", "stopping"}
  /\ buffers < MaxBuffers
  /\ buffers' = IF empty THEN buffers ELSE buffers + 1
  /\ UNCHANGED <<recStatus, currentSessionStatus, callVars, recorders, delayed,
                 mediaRecorderRef, stopTimers, sent>>
  /\ RecorderStep("dataavailable")

\* arrayBuffer() resolves (App.jsx:462-467): the chunk is emitted with the
\* session id of that moment
emitChunk ==
  /\ buffers > 0
  /\ Len(sent) < MaxSent
  /\ buffers' = buffers - 1
  /\ sent' = Emit(sent, "audio_chunk", sessionIdRef)
  /\ UNCHANGED <<recStatus, currentSessionStatus, callVars, recorders, delayed,
                 mediaRecorderRef, stopTimers>>
  /\ RecorderStep("emitChunk")

\* the recorders after stopRecording (App.jsx:506-533): the stop listener
\* holds sid, mr.stop() begins, the tracks of streamRef end
RecordersAfterStop(sid) ==
  IF mediaRecorderRef = 0 THEN recorders
  ELSE [recorders EXCEPT ![mediaRecorderRef] =
          IF @.state = "recording" THEN [state |-> "stopping", sessionId |-> sid]
          ELSE IF @.state = "inactive" THEN [@ EXCEPT !.state = "ended"]
          ELSE @]

\* stopRecording of part_001:612-673; the Stop button is enabled while
\* recStatus is "recording" (part_001:977)
stopRecording ==
  /\ mounted
  /\ recStatus = "recording"
  /\ IF sessionIdRef = NoSession
     THEN UNCHANGED <<recStatus, currentSessionStatus, recorders, mediaRecorderRef>>
     ELSE /\ recorders' = RecordersAfterStop(sessionIdRef)
          /\ mediaRecorderRef' = 0
          /\ recStatus' = "idle"
          /\ currentSessionStatus' = "finalized"
  /\ UNCHANGED <<callVars, delayed, stopTimers, buffers, sent>>
  /\ RecorderStep("stopRecording")

\* the "stop" event of a recorder (App.jsx:510-519): the listener sets the
\* 200 ms timer
recorderStopped(mr) ==
  /\ recorders[mr].state = "stopping"
  /\ recorders' = [recorders EXCEPT ![mr].state = "stopped"]
  /\ stopTimers' = Append(stopTimers, recorders[mr].sessionId)
  /\ UNCHANGED <<recStatus, currentSessionStatus, callVars, delayed, mediaRecorderRef,
                 buffers, sent>>
  /\ RecorderStep("recorderStopped")

\* the 200 ms timer fires (App.jsx:513-517)
stopTimeout ==
  /\ stopTimers # <<>>
  /\ Len(sent) + 2 <= MaxSent
  /\ sent' = Emit(Emit(sent, "stop_recording", Head(stopTimers)),
                  "finalize_transcription", Head(stopTimers))
  /\ stopTimers' = Tail(stopTimers)
  /\ UNCHANGED <<recStatus, currentSessionStatus, callVars, recorders, delayed,
                 mediaRecorderRef, buffers>>
  /\ RecorderStep("stopTimeout")

\* ------------------------------------------------------------------------
\* Specifications
\* ------------------------------------------------------------------------
SocketEvent ==
  \E sid \in EventSessionIds :
    \/ \E text \in EventTexts : transcript_partial(sid, text)
    \/ \E text \in EventTexts : transcript_final(sid, text)
    \/ \E segmentId \in SegmentIds, isFinal \in BOOLEAN : \E ws \in WordLists(segmentId) :
         transcript_patch(sid, segmentId, ws, isFinal)

\* App.jsx with FinalEditor.jsx as they are in src: no user edit reaches
\* onUserEdit, so the merge banner is never rendered
Next ==
  \/ Mount
  \/ SocketEvent
  \/ startRecording
  \/ \E data \in LoadData : loadSession(data)
  \/ \E edit \in Edits : EditorOnChange(edit)
  \/ SelectionChange

Spec == Init /\ [][Next]_vars

\* a recording session of App.jsx with an editor that raises onUserEdit on
\* every edit of the document
NextNotified ==
  \/ Mount
  \/ SocketEvent
  \/ startRecording
  \/ \E edit \in Edits : onUserEdit(edit)
  \/ handleAppendAsr
  \/ handleReplaceWithAsr
  \/ handleIgnoreAsr

SpecNotified == Init /\ [][NextNotified]_vars

\* the editor receiving new values while the user changes text and structure
ReconcileTexts ==
  { <<"b">>, <<"a", "b">>, <<"a", "b", "c">>, <<"a", "b", "\n", "c">> }

\* the events of the session that is being recorded
FinalEvent ==
  /\ sessionIdRef # NoSession
  /\ \E text \in ReconcileTexts : transcript_final(sessionIdRef, text)

NextReconcile ==
  \/ Mount
  \/ startRecording
  \/ FinalEvent
  \/ \E edit \in Edits \cup StructuralEdits : EditorOnChange(edit)
  \/ SelectionChange

SpecReconcile == Init /\ [][NextReconcile]_vars

\* the auto-append variant: sessions are loaded, recorded and edited
AutoAppendPatchEvent ==
  /\ sessionIdRef # NoSession
  /\ Len(slateToPlainText(finalEditorValue)) <= MaxAppendLen
  /\ \E segmentId \in SegmentIds, isFinal \in BOOLEAN :
       \E ws \in WordLists(segmentId) :
         AutoAppendPatch(sessionIdRef, segmentId, ws, isFinal)

NextAutoAppend ==
  \/ Mount
  \/ AutoAppendStartRecording
  \/ createNewSession
  \/ AutoAppendPatchEvent
  \/ \E data \in StoredSessions : AutoAppendLoadSession(data)
  \/ \E edit \in Edits : AutoAppendEditorOnChange(edit)

SpecAutoAppend == Init /\ [][NextAutoAppend]_vars

\* the recordings of one session of the variant
NextRecorder ==
  \/ Mount
  \/ AutoAppendStartRecording
  \/ gotUserMedia
  \/ micError
  \/ delayElapsed
  \/ \E mr \in DOMAIN recorders, empty \in BOOLEAN : dataavailable(mr, empty)
  \/ emitChunk
  \/ stopRecording
  \/ \E mr \in DOMAIN recorders : recorderStopped(mr)
  \/ stopTimeout

SpecRecorder == Init /\ [][NextRecorder]_vars

\* a recording of the variant during which the user leaves the editor alone
NextUnedited ==
  \/ Mount
  \/ AutoAppendStartRecording
  \/ AutoAppendPatchEvent

SpecUnedited == Init /\ [][NextUnedited]_vars

\* a recording that receives the patches of PatchWordLists
PatchEvent ==
  \E sid \in EventSessionIds, segmentId \in PatchSegmentIds, isFinal \in BOOLEAN :
    \E ws \in PatchWordLists(segmentId) : transcript_patch(sid, segmentId, ws, isFinal)

NextPatch ==
  \/ Mount
  \/ startRecording
  \/ PatchEvent

SpecPatch == Init /\ [][NextPatch]_vars

\* a recording whose interim patches carry the ids of OrderSegmentIds
OrderPatchEvent ==
  /\ sessionIdRef # NoSession
  /\ \E segmentId \in OrderSegmentIds, ws \in { <<WordA>>, <<WordComma>> } :
       transcript_patch(sessionIdRef, segmentId, ws, FALSE)

NextOrder ==
  \/ Mount
  \/ startRecording
  \/ OrderPatchEvent

SpecOrder == Init /\ [][NextOrder]_vars

\* a recording whose patches are all final and arrive once per segment, in
\* ascending sequence number
ForwardPatch ==
  \E sid \in EventSessionIds, segmentId \in ForwardSegmentIds :
    \E ws \in PatchWordLists(segmentId) :
      /\ \A old \in DOMAIN segments : CommitKey(old) < CommitKey(segmentId)
      /\ transcript_patch(sid, segmentId, ws, TRUE)

PartialEvent ==
  \E sid \in EventSessionIds, text \in EventTexts : transcript_partial(sid, text)

NextForward ==
  \/ Mount
  \/ startRecording
  \/ PartialEvent
  \/ ForwardPatch

SpecForward == Init /\ [][NextForward]_vars

\* a recording that is saved and played back while patches still arrive
PlaybackPatch ==
  \E segmentId \in PatchSegmentIds :
    \E ws \in PlaybackWordLists(segmentId) :
      \E isFinal \in IF segmentId = <<"seg", "0">> THEN {TRUE} ELSE BOOLEAN :
        transcript_patch(sessionIdRef, segmentId, ws, isFinal)

NextPlayback ==
  \/ Mount
  \/ startRecording
  \/ PlaybackPatch
  \/ \E sid \in EventSessionIds, ok \in BOOLEAN, sameUrl \in BOOLEAN :
       recording_saved(sid, ok, sameUrl)
  \/ play
  \/ pause
  \/ ended
  \/ \E t \in Times : onSeeked(t)
  \/ \E t \in Times : tick(t)

SpecPlayback == Init /\ [][NextPlayback]_vars

\* stored sessions of the variant that are loaded, played back and followed
\* by a new session
NextActiveWord ==
  \/ Mount
  \/ \E data \in StoredSessions : AutoAppendLoadSession(data)
  \/ createNewSession
  \/ AutoAppendStartRecording
  \/ play
  \/ pause
  \/ \E t \in Times : onSeeked(t)
  \/ \E t \in Times : tick(t)

SpecActiveWord == Init /\ [][NextActiveWord]_vars

\* ------------------------------------------------------------------------
\* Properties
\* ------------------------------------------------------------------------
TranscriptOps == {"transcript_partial", "transcript_final", "transcript_patch"}

\* the Document's plain-text projection: the editor value App holds
DocText == slateToPlainText(finalEditorValue)

Clean == ~isFinalDirty /\ ~hasNewFinalUpdate
DirtyNoPending == isFinalDirty /\ ~hasNewFinalUpdate
DirtyPending == isFinalDirty /\ hasNewFinalUpdate

\* C1: session isolation.  A transcript_partial, transcript_final or
\* transcript_patch event whose sessionId differs from sessionIdRef changes no
\* state of the engine: texts, word list, segments, committed text, document,
\* editor, dirty and pending flags all keep their values.
C1_SessionIsolation ==
  [][lastEvent'.stale => UNCHANGED <<sessionIdRef, engineVars>>]_vars

\* a patch for another session has just been discarded while this session
\* holds segments
C1_Witness ==
  /\ lastEvent = [op |-> "transcript_patch", stale |-> TRUE]
  /\ sessionIdRef # NoSession
  /\ DOMAIN segments # {}

\* C2: clean auto-sync.  When a patch makes the committed text a new value
\* that differs from lastAppliedServerFinalText while isFinalDirty is false,
\* then after the update the document's plain text and
\* lastAppliedServerFinalText both equal the new committed text and the state
\* is still Clean; for every new text, the empty one included.
C2_CleanAutoSync ==
  [][(/\ lastEvent'.op = "transcript_patch"
      /\ ~isFinalDirty
      /\ committedFinalText' # committedFinalText
      /\ committedFinalText' # lastAppliedServerFinalText)
     => (/\ DocText' = committedFinalText'
         /\ lastAppliedServerFinalText' = committedFinalText'
         /\ Clean')]_vars

C4_UserEditDirties ==
  [][(lastEvent'.op = "user_edit" /\ ~hasNewFinalUpdate)
     => (/\ DirtyNoPending'
         /\ lastAppliedServerFinalText' = lastAppliedServerFinalText)]_vars

C10_FinalSegmentImmutable ==
  [][lastEvent'.op = "transcript_patch"
     => \A id \in DOMAIN segments :
          segments[id].isFinal
          => (id \in DOMAIN segments' /\ segments'[id] = segments[id])]_vars


\* the committed (isFinal) words of the display word list
CommittedWords(ws) == SelectSeq(ws, IsCommitted)

IsInterim(w) == ~w.isFinal

Wids(ws) == { ws[i].wid : i \in 1..Len(ws) }

\* the final patch (segmentId, ws) has been delivered: the segment map holds
\* it, its words are committed in the display list, and no interim tail is
\* shown
Delivered(segmentId, ws) ==
  /\ segmentId \in DOMAIN segments
  /\ segments[segmentId] = [words |-> ws, isFinal |-> TRUE]
  /\ Wids(ws) \subseteq Wids(words)
  /\ CommittedWords(words) = words

C12_InterimReplacement ==
  [][\A sid \in EventSessionIds, segmentId \in PatchSegmentIds :
       \A ws \in PatchWordLists(segmentId) :
         (/\ lastEvent'.op = "transcript_patch"
          /\ IsActiveSession(sid)
          /\ ~(segmentId \in DOMAIN segments /\ segments[segmentId].isFinal)
          /\ transcript_patch(sid, segmentId, ws, FALSE))
         => (/\ segments'[segmentId] = [words |-> ws, isFinal |-> FALSE]
             /\ SelectSeq(words', IsInterim) = MarkWords(ws, FALSE)
             /\ words' = CommittedWords(words) \o MarkWords(ws, FALSE))]_vars

\* interim [a, b] of seg_0 is shown after an earlier interim patch: the
\* list is [a, b]
C12_Witness ==
  /\ lastEvent = [op |-> "transcript_patch", stale |-> FALSE]
  /\ <<"seg", "0">> \in DOMAIN segments
  /\ segments[<<"seg", "0">>] = [words |-> <<WordA, WordB>>, isFinal |-> FALSE]
  /\ words = MarkWords(<<WordA, WordB>>, FALSE)

\* C13: committed words are retained.  A patch event keeps every committed
\* word of the display list, unchanged and in the same order: the committed
\* words before the patch are a prefix of the committed words after it.
C13_CommittedWordsRetained ==
  [][lastEvent'.op = "transcript_patch"
     => StartsWith(CommittedWords(words'), CommittedWords(words))]_vars

\* an interim patch has been merged into a list that holds committed words
C13_Witness ==
  /\ lastEvent = [op |-> "transcript_patch", stale |-> FALSE]
  /\ Len(CommittedWords(words)) >= 2
  /\ CommittedWords(words) # words

\* the word texts of the final segments, in the order ids
RECURSIVE FinalWordTexts(_, _)
FinalWordTexts(segs, ids) ==
  IF ids = <<>> THEN <<>>
  ELSE (IF segs[ids[1]].isFinal THEN WordTexts(segs[ids[1]].words) ELSE <<>>)
       \o FinalWordTexts(segs, Tail(ids))

\* C14: committed text definition.  The committed text is the word texts of
\* all final segments in ascending sequence number, joined by single spaces,
\* with the whitespace before . , ! ? ; : removed; interim segments
\* contribute nothing.
C14_CommittedTextDefinition ==
  mounted =>
    committedFinalText =
      CleanUpPunctuation(Join(FinalWordTexts(segments, sortedSegmentIds(segments)), <<" ">>))

AllFinal(segs) == \A id \in DOMAIN segs : segs[id].isFinal

\* C15: monotonic append.  When all stored segments are final and a final
\* patch adds a segment whose sequence number is greater than all stored
\* ones, the committed text before the patch is a prefix of the committed
\* text after it.
C15_MonotonicAppend ==
  [][(/\ lastEvent' = [op |-> "transcript_patch", stale |-> FALSE]
      /\ AllFinal(segments')
      /\ \E id \in DOMAIN segments' \ DOMAIN segments :
           \A old \in DOMAIN segments : CommitKey(old) < CommitKey(id))
     => StartsWith(committedFinalText', committedFinalText)]_vars

\* C16: recompute idempotence.  In every state the handlers leave, the
\* committed text recomputed from the segment map is the stored committed
\* text, and one more run of the committed-text effect calls no setter: the
\* committed text, the document, lastAppliedServerFinalText and the pending
\* flag are at a fixpoint.
C16_RecomputeIdempotence ==
  mounted =>
    LET again == CommittedTextEffect(segments, committedFinalText, isFinalDirty,
                                     lastAppliedServerFinalText)
    IN /\ buildCommittedTextFromSegments(segments) = committedFinalText
       /\ again.committedFinalText = committedFinalText
       /\ ~again.setEditorValue
       /\ again.lastApplied = lastAppliedServerFinalText
       /\ ~again.setHasNew

\* the effect has synced the text of two final segments into the document
C16_Witness ==
  /\ lastEvent = [op |-> "transcript_patch", stale |-> FALSE]
  /\ committedFinalText = <<"a", ",">>
  /\ lastAppliedServerFinalText = committedFinalText
  /\ DocText = committedFinalText

\* C17: session creation resets everything.  After startRecording, and after
\* loadSession has loaded a saved session, the segment map and the word list
\* hold only the new session's data, isFinalDirty (state and ref) and the
\* pending flag are false, and lastAppliedServerFinalText holds no text of the
\* previous session ("" after startRecording).
C17_SessionCreationResets ==
  [][/\ lastEvent'.op = "startRecording"
        => (/\ DOMAIN segments' = {}
            /\ words' = <<>>
            /\ Clean'
            /\ ~isFinalDirtyRef'
            /\ lastAppliedServerFinalText' = <<>>)
     /\ \A data \in LoadData :
          (lastEvent'.op = "loadSession" /\ data.session /\ loadSession(data))
          => (/\ \A id \in DOMAIN segments' :
                   \E i \in 1..Len(data.segments) : segments'[id] = data.segments[i]
              /\ words' = AllWords(data.segments)
              /\ Clean'
              /\ ~isFinalDirtyRef'
              /\ lastAppliedServerFinalText' \in {<<>>, data.finalText})]_vars

\* the word of the playback sequence the claim selects for time t: the first
\* one whose half-open interval [t0, t1) contains t
ExpectedActive(t) ==
  LET hits == { i \in 1..Len(orderedWords) :
                  orderedWords[i].t0 <= t /\ t < orderedWords[i].t1 }
  IN IF hits = {} THEN NoWord
     ELSE orderedWords[CHOOSE i \in hits : \A j \in hits : i <= j].wid

\* C18: playback lookup.  A frame or a seek at time t sets activeWid to the
\* id of the first word of the ordered timestamped sequence with
\* t0 <= t < t1, and to null when no word contains t.
C18_PlaybackLookup ==
  [][\A t \in Times :
       (lastEvent'.op \in {"tick", "seeked"} /\ (tick(t) \/ onSeeked(t)))
       => activeWid' = ExpectedActive(t)]_vars

\* words (1, 0, 1), (2, 1, 2): a frame at t = 1, the end of word 1 and the
\* start of word 2, has made word 2 active
C18_Witness ==
  /\ lastEvent.op = "tick"
  /\ orderedWords = <<WordA, WordComma>>
  /\ activeWid = WordComma.wid

\* C19: the playback lookup sequence holds only words of final segments
\* that have both timestamps, so the active word is never a word of an
\* interim segment nor a word without a timestamp.
C19_PlaybackOnlyCommitted ==
  /\ \A i \in 1..Len(orderedWords) :
       /\ HasTimes(orderedWords[i])
       /\ \E id \in DOMAIN segments :
            /\ segments[id].isFinal
            /\ \E j \in 1..Len(segments[id].words) :
                 segments[id].words[j] = orderedWords[i]
  /\ lastEvent.op \in {"tick", "seeked"} /\ activeWid # NoWord
     => \E id \in DOMAIN segments :
          /\ segments[id].isFinal
          /\ \E j \in 1..Len(segments[id].words) :
               /\ segments[id].words[j].wid = activeWid
               /\ HasTimes(segments[id].words[j])

\* C20: playback loop liveness.  Once play has started the per-frame loop, a
\* frame stays requested after every step that is not pause, ended or the
\* removal of the audio element: also after the active word has changed and
\* after a patch has grown the word index.
C20_PlaybackLoopKeepsRunning ==
  [][(rafId /\ lastEvent'.op \notin {"pause", "ended", "startRecording"})
     => rafId']_vars

\* C21: no dangling loop.  At most one frame callback of the evaluation loop
\* is pending at any time; none is pending while the loop is stopped (after
\* pause, ended, or the cleanup of the playback effect) or while no audio
\* element is attached, so a tick runs only between a play and the next stop.
C21_NoDanglingLoop ==
  /\ frames <= 1
  /\ ~rafId => frames = 0
  /\ ~audioUrl => frames = 0
  /\ lastEvent.op \in {"pause", "ended", "startRecording", "loadSession"}
     => frames = 0

\* a frame has made word 1 active, the loop was started again and then paused
C21_Witness ==
  /\ lastEvent.op = "pause"
  /\ activeWid = WordA.wid
  /\ orderedWords = <<WordA, WordComma>>
  /\ frames = 0

\* C22: a seeked event evaluates the active word once at the current time,
\* whether or not the loop is running, and neither starts nor stops the
\* evaluation loop: the requested frame is the same before and after.
C22_SeekedEvaluatesOnce ==
  [][\A t \in Times :
       (lastEvent'.op = "seeked" /\ onSeeked(t))
       => /\ activeWid' = ExpectedActive(t)
          /\ rafId' = rafId
          /\ frames' = frames]_vars

\* the document new is the document old with delta added at the end of the
\* last leaf of the last paragraph, and nothing else changed
AppendedAtEnd(old, new, delta) ==
  /\ Len(new) = Len(old)
  /\ \A p \in 1..(Len(old) - 1) : new[p] = old[p]
  /\ LET oldLeaves == old[Len(old)].children
         newLeaves == new[Len(old)].children
     IN /\ Len(newLeaves) = Len(oldLeaves)
        /\ \A l \in 1..(Len(oldLeaves) - 1) : newLeaves[l] = oldLeaves[l]
        /\ newLeaves[Len(oldLeaves)].bold = oldLeaves[Len(oldLeaves)].bold
        /\ newLeaves[Len(oldLeaves)].text = oldLeaves[Len(oldLeaves)].text \o delta

\* C23: structural append.  When the editor is handed a value whose text
\* strictly extends the non-empty plain text of its document, the delta is
\* inserted at the end of the last leaf of the last paragraph, every
\* preceding paragraph and leaf keeps its text and marks, and the plain text
\* of the document equals the new text.
C23_StructuralAppend ==
  [][\A text \in ReconcileTexts :
       (/\ transcript_final(sessionIdRef, text)
        /\ ~isFinalDirtyRef
        /\ IsAppend(text, getPlainText(editorChildren)))
       => /\ AppendedAtEnd(editorChildren, editorChildren',
                           Slice(text, Len(getPlainText(editorChildren))))
          /\ getPlainText(editorChildren') = text]_vars

\* C24: full replace on non-append.  When the editor is handed a value whose
\* text is not a strict prefix-extension of the plain text of its document
\* (a shorter text, a correction, an equal text), the content of the document
\* is replaced by the new value and its plain text equals the new text.
C24_FullReplaceOnNonAppend ==
  [][\A text \in ReconcileTexts :
       (/\ transcript_final(sessionIdRef, text)
        /\ ~isFinalDirtyRef
        /\ ~(/\ StartsWith(text, getPlainText(editorChildren))
             /\ Len(text) > Len(getPlainText(editorChildren))))
       => /\ editorChildren' = textToSlateValue(text)
          /\ getPlainText(editorChildren') = text]_vars

C30_AutoAppendShrinkKeepsEditor ==
  [][(/\ lastEvent'.op = "transcript_patch"
      /\ Len(committedFinalText') < Len(committedFinalText))
     => /\ finalEditorValue' = finalEditorValue
        /\ editorChildren' = editorChildren
        /\ committedFinalText' = buildCommittedTextFromSegments(segments')]_vars

\* the final segment "a" was made interim again: the committed text is empty
\* and the editor still shows "a"
C30_Witness ==
  /\ lastEvent.op = "transcript_patch"
  /\ committedFinalText = <<>>
  /\ DOMAIN segments = { <<"seg", "0">> }
  /\ ~segments[<<"seg", "0">>].isFinal
  /\ DocText = <<"a">>

\* C27: load fidelity.  After loadSession has loaded a stored session and
\* the effects have settled, the document App holds is the stored structured
\* document when the response has one, otherwise one paragraph holding the
\* stored finalText; text recomputed from the loaded segments or from the
\* segments of an earlier session does not alter it.
C27_LoadFidelity ==
  [][\A data \in StoredSessions :
       (/\ lastEvent'.op = "loadSession"
        /\ data.session
        /\ AutoAppendLoadSession(data))
       => finalEditorValue' = IF data.hasSlate THEN data.slateContent
                              ELSE textToSlateValue(data.finalText)]_vars

\* the structural append can be performed on the document: it has a last
\* paragraph whose last child is a text node
CanAppend(children) ==
  /\ Len(children) > 0
  /\ Len(children[Len(children)].children) > 0
  /\ IsText(children[Len(children)].children[Len(children[Len(children)].children)])

\* C25: append failure degrades to full replace.  When the editor is handed
\* a value that extends the text of its document and the structural append
\* cannot be performed (the last paragraph has no children, or the insert
\* throws because its last child is not a text node), the document is
\* replaced by the new value and its plain text equals the new text.
C25_AppendFailureFallsBack ==
  [][(/\ lastEvent'.op = "transcript_patch"
      /\ finalEditorValue' # finalEditorValue
      /\ ~isInternalChangeRef
      /\ IsAppend(getPlainText(finalEditorValue'), getPlainText(editorChildren))
      /\ ~CanAppend(editorChildren))
     => /\ editorChildren' = finalEditorValue'
        /\ getPlainText(editorChildren') = getPlainText(finalEditorValue')]_vars

SuffixKey(segId) ==
  LET last == segId[Len(segId)]
  IN IF last \in NumericFields THEN parseInt(last) ELSE 0

\* C28: both sorts order the segments by the numeric suffix of the id, with
\* key 0 for an id without one: every stored id has a number as its key in the
\* committed-text sort and in the playback sort, and that number is SuffixKey.
C28_OrderingKey ==
  \A segId \in DOMAIN segments :
    /\ CommitField(segId) \in NumericFields
    /\ OrderField(segId) \in NumericFields
    /\ CommitKey(segId) = SuffixKey(segId)
    /\ OrderKey(segId) = SuffixKey(segId)

\* C31: in the auto-append variant, while the user does not edit, the plain
\* text of the editor equals the committed text after every patch of the
\* recording, whatever the sequence of interim and final patches.
C31_UneditedEditorIsCommitted ==
  lastEvent.op = "transcript_patch" => DocText = committedFinalText

\* the messages of type emitted for session sid before position i
Before(i, type, sid) ==
  { j \in 1..(i - 1) : sent[j].type = type /\ sent[j].sessionId = sid }

\* C32: the recorder protocol.  Every audio_chunk follows the
\* start_transcription of its session and no audio_chunk follows the
\* finalize_transcription of its session; a recorder only records after the
\* start_transcription of its call; stop_recording is followed at once by
\* finalize_transcription for the same session, which is a session that was
\* active, and both are emitted once per recording.
C32_RecorderProtocol ==
  /\ \A i \in DOMAIN sent :
       /\ sent[i].type = "audio_chunk"
          => /\ Before(i, "start_transcription", sent[i].sessionId) # {}
             /\ Before(i, "finalize_transcription", sent[i].sessionId) = {}
       /\ sent[i].type = "stop_recording"
          => /\ i < Len(sent)
             /\ sent[i + 1] = [type |-> "finalize_transcription",
                               sessionId |-> sent[i].sessionId]
             /\ sent[i].sessionId # NoSession
             /\ Before(i, "stop_recording", sent[i].sessionId) = {}
  /\ \A mr \in DOMAIN recorders :
       recorders[mr].state = "recording"
         => \E i \in DOMAIN sent : sent[i].type = "start_transcription"

\* C33: clean means in sync.  In every state where isFinalDirty is false the
\* document's plain text equals lastAppliedServerFinalText.
C33_CleanMeansInSync ==
  ~isFinalDirty => DocText = lastAppliedServerFinalText

WordPairs(ws) == { <<ws[i].wid, ws[i].text>> : i \in 1..Len(ws) }

\* the (id, text) pairs of the words of the segments stored as final
FinalSegmentPairs(segs) ==
  UNION { WordPairs(segs[id].words) : id \in { x \in DOMAIN segs : segs[x].isFinal } }

\* C35: word list and segment map agree.  After every patch the words with
\* isFinal = true in the display list are exactly the words (same ids and
\* texts) of the segments stored with isFinal = true.
C35_WordListMatchesSegments ==
  lastEvent.op = "transcript_patch"
    => WordPairs(CommittedWords(words)) = FinalSegmentPairs(segments)

\* the sign of na - nb as sort reads it, for the key fields fa and fb: a NaN
\* difference counts as 0
SortSign(fa, fb) ==
  IF fa \notin NumericFields \/ fb \notin NumericFields THEN 0
  ELSE IF parseInt(fa) < parseInt(fb) THEN -1
  ELSE IF parseInt(fa) > parseInt(fb) THEN 1
  ELSE 0

\* C36: one ordering for both projections.  For every two stored segment ids
\* the comparator of the committed-text sort and the comparator of the
\* playback sort give the same result, so the two sorts order every set of
\* segments alike.
C36_OneOrdering ==
  \A a, b \in DOMAIN segments :
    SortSign(CommitField(a), CommitField(b)) = SortSign(OrderField(a), OrderField(b))

\* C37: active word validity.  activeWid is null or the id of a word of the
\* playback sequence, and it is null right after a new session was started.
C37_ActiveWordValid ==
  /\ activeWid = NoWord \/ activeWid \in Wids(orderedWords)
  /\ lastEvent.op \in {"startRecording", "createNewSession"} => activeWid = NoWord

\* the handlers that change the editor's value prop from outside the editor
ProgrammaticOps ==
  {"transcript_final", "transcript_patch", "loadSession", "startRecording",
   "handleAppendAsr", "handleReplaceWithAsr"}

\* C38: no programmatic update is swallowed.  Whenever a handler outside the
\* editor changes the value handed to the editor, the editor's content shows
\* the text of the new value afterwards, whatever editor events came before,
\* a selection-only change included.
C38_NoUpdateSwallowed ==
  [][(lastEvent'.op \in ProgrammaticOps /\ finalEditorValue' # finalEditorValue)
     => getPlainText(editorChildren') = slateToPlainText(finalEditorValue')]_vars

\* C39: a recording_saved event of a session other than the active one
\* changes neither the audio url nor any other state of the active session.
C39_StaleSaveIgnored ==
  [][(lastEvent'.op = "recording_saved" /\ lastEvent'.stale)
     => UNCHANGED <<sessionIdRef, engineVars, playbackVars>>]_vars

====
